---- MODULE Spec2Model ----
(***************************************************************************)
(* Model of pncp_extrator_licitacoes_encerradas.py: the page fetcher with  *)
(* retry, the closure classifier, the pagination stream (a generator) and  *)
(* the checkpointing job runner that consumes it and writes CSV chunks,    *)
(* flatten_dict and the cells of the standard encoder, and the window that *)
(* validates the form and runs the job in a worker thread.                 *)
(*                                                                         *)
(* Python values are modelled as tagged records of one shape,              *)
(*     [t |-> type tag, n |-> integer payload, s |-> characters],          *)
(* so that values of different Python types can be compared and put in    *)
(* sets.  Strings are sequences of one-character strings, so that slicing, *)
(* stripping, lower-casing and parsing are computed, not assumed.          *)
(***************************************************************************)
EXTENDS Integers, Sequences, FiniteSets, TLC

(* ------------------------------ Config (lines 34-63) ------------------- *)

PAGE_SIZE == 50

MAX_RETRIES_6 == 5 + 1

MAX_RETRIES == 5

RETRY_BACKOFF_SECONDS == 2

(* ------------------------------ Python values -------------------------- *)

\* Python None.
None == [t |-> "none", n |-> 0, s |-> <<>>]

\* The result of dict.get on a key the dict does not hold is None; Absent
\* marks the missing key itself so that key counts and defaults can be told.
Absent == [t |-> "absent", n |-> 0, s |-> <<>>]

\* An int (or a float with no fractional part).
Num(k) == [t |-> "num", n |-> k, s |-> <<>>]

\* A float, in thousandths.
Flt(m) == [t |-> "float", n |-> m, s |-> <<>>]

\* A str, as its characters.
Str(chars) == [t |-> "str", n |-> 0, s |-> chars]

\* A list with k elements (only its type and length matter where it is used).
ListOf(k) == [t |-> "list", n |-> k, s |-> <<>>]

\* A dict with k keys.
DictOf(k) == [t |-> "dict", n |-> k, s |-> <<>>]

\* bool(v): the truth value Python gives a value in `if v`, `v or d`, `not v`.
Truthy(v) ==
    CASE v.t = "none"   -> FALSE
      [] v.t = "absent" -> FALSE
      [] v.t = "num"    -> v.n # 0
      [] v.t = "float"  -> v.n # 0
      [] v.t = "str"    -> Len(v.s) > 0
      [] v.t = "list"   -> v.n > 0
      [] v.t = "dict"   -> v.n > 0
      [] OTHER          -> TRUE

\* dict.get(key): a missing key reads as None.
Get(v) == IF v.t = "absent" THEN None ELSE v

(* ------------------------------ str methods ---------------------------- *)

Digits == <<"0", "1", "2", "3", "4", "5", "6", "7", "8", "9">>

IsDigit(c) == \E i \in 1..10 : Digits[i] = c

DigitVal(c) == (CHOOSE i \in 1..10 : Digits[i] = c) - 1

AllDigits(cs) == \A i \in 1..Len(cs) : IsDigit(cs[i])

RECURSIVE NatOf(_)
NatOf(cs) ==
    IF cs = <<>> THEN 0
    ELSE 10 * NatOf(SubSeq(cs, 1, Len(cs) - 1)) + DigitVal(cs[Len(cs)])

UpperCase == <<"A", "B", "C", "D", "E", "F", "G", "H", "I", "J", "K", "L", "M",
               "N", "O", "P", "Q", "R", "S", "T", "U", "V", "W", "X", "Y", "Z">>

LowerCase == <<"a", "b", "c", "d", "e", "f", "g", "h", "i", "j", "k", "l", "m",
               "n", "o", "p", "q", "r", "s", "t", "u", "v", "w", "x", "y", "z">>

LowerChar(c) ==
    IF \E i \in 1..26 : UpperCase[i] = c
    THEN LowerCase[CHOOSE i \in 1..26 : UpperCase[i] = c]
    ELSE c

\* str.lower()
Lower(cs) == [i \in 1..Len(cs) |-> LowerChar(cs[i])]

Whitespace == {" ", "\t", "\n"}

\* str.strip(): leading and trailing whitespace removed, inner kept.
Strip(cs) ==
    LET ink == {i \in 1..Len(cs) : cs[i] \notin Whitespace}
    IN  IF ink = {} THEN <<>>
        ELSE LET lo == CHOOSE i \in ink : \A j \in ink : i <= j
                 hi == CHOOSE i \in ink : \A j \in ink : j <= i
             IN  SubSeq(cs, lo, hi)

\* s[:k]
Prefix(cs, k) == SubSeq(cs, 1, IF Len(cs) < k THEN Len(cs) ELSE k)

\* The positions of character c in cs, ascending.
Positions(cs, c) == {i \in 1..Len(cs) : cs[i] = c}

(* ------------------------------ dates ---------------------------------- *)

\* A datetime.date, as <<year, month, day>>; NoDate is the None of line 73/81.
NoDate == <<0, 0, 0>>

IsLeap(y) == (y % 4 = 0 /\ y % 100 # 0) \/ y % 400 = 0

DaysIn(y, m) ==
    IF m = 2 THEN (IF IsLeap(y) THEN 29 ELSE 28)
    ELSE IF m \in {4, 6, 9, 11} THEN 30 ELSE 31

\* date(y, m, d) raises ValueError outside the calendar (MINYEAR = 1).
ValidDate(y, m, d) ==
    y >= 1 /\ y <= 9999 /\ m >= 1 /\ m <= 12 /\ d >= 1 /\ d <= DaysIn(y, m)

\* d1 <= d2 on dates.
DateLeq(d1, d2) ==
    \/ d1[1] < d2[1]
    \/ d1[1] = d2[1] /\ d1[2] < d2[2]
    \/ d1[1] = d2[1] /\ d1[2] = d2[2] /\ d1[3] <= d2[3]

\* datetime.strptime(cs, "%Y-%m-%d").date(): the whole text must match
\* \d{4} - (1[0-2]|0[1-9]|[1-9]) - (3[01]|[12]\d|0[1-9]|[1-9]| [1-9]) and name
\* a calendar day; NoDate stands for the ValueError.
Strptime(cs) ==
    LET dash == Positions(cs, "-")
    IN  IF Cardinality(dash) # 2 THEN NoDate
        ELSE
          LET p1 == CHOOSE i \in dash : \A j \in dash : i <= j
              p2 == CHOOSE i \in dash : \A j \in dash : j <= i
              ys == SubSeq(cs, 1, p1 - 1)
              ms == SubSeq(cs, p1 + 1, p2 - 1)
              ds0 == SubSeq(cs, p2 + 1, Len(cs))
              ds == IF Len(ds0) = 2 /\ ds0[1] = " " THEN SubSeq(ds0, 2, 2) ELSE ds0
              shape == /\ Len(ys) = 4 /\ AllDigits(ys)
                       /\ Len(ms) \in {1, 2} /\ AllDigits(ms)
                       /\ Len(ds) \in {1, 2} /\ AllDigits(ds)
          IN  IF ~shape THEN NoDate
              ELSE IF ValidDate(NatOf(ys), NatOf(ms), NatOf(ds))
                   THEN <<NatOf(ys), NatOf(ms), NatOf(ds)>>
                   ELSE NoDate

\* datetime.fromisoformat(cs).date() for the extended format every Python 3
\* accepts: YYYY-MM-DD alone or followed by one separator character and a
\* time of day HH[:MM[:SS]]; NoDate stands for the ValueError.
FromIsoFormat(cs) ==
    LET d == SubSeq(cs, 1, 10)
        strict == /\ Len(cs) >= 10
                  /\ AllDigits(SubSeq(d, 1, 4)) /\ d[5] = "-"
                  /\ AllDigits(SubSeq(d, 6, 7)) /\ d[8] = "-"
                  /\ AllDigits(SubSeq(d, 9, 10))
        rest == SubSeq(cs, 12, Len(cs))
        timeOk == \/ Len(cs) = 10
                  \/ /\ Len(cs) >= 13
                     /\ AllDigits(SubSeq(rest, 1, 2))
                     /\ \A i \in 3..Len(rest) :
                           IF i % 3 = 0 THEN rest[i] = ":" ELSE IsDigit(rest[i])
                     /\ Len(rest) \in {2, 5, 8}
    IN  IF strict /\ timeOk
           /\ ValidDate(NatOf(SubSeq(d, 1, 4)), NatOf(SubSeq(d, 6, 7)),
                        NatOf(SubSeq(d, 9, 10)))
        THEN <<NatOf(SubSeq(d, 1, 4)), NatOf(SubSeq(d, 6, 7)), NatOf(SubSeq(d, 9, 10))>>
        ELSE NoDate

\* str.replace("Z", "+00:00")
ReplaceZ(cs) ==
    LET RECURSIVE rep(_)
        rep(i) == IF i > Len(cs) THEN <<>>
                  ELSE (IF cs[i] = "Z" THEN <<"+", "0", "0", ":", "0", "0">>
                        ELSE <<cs[i]>>) \o rep(i + 1)
    IN  rep(1)

\* _only_date_from_api, lines 71-81.  A falsy value gives None; a value that
\* is no str raises inside both try blocks (s[:10] or s.replace) and gives
\* None as well.
only_date_from_api(s) ==
    IF ~Truthy(s) THEN NoDate
    ELSE IF s.t # "str" THEN NoDate
    ELSE LET first == Strptime(Prefix(s.s, 10))
         IN  IF first # NoDate THEN first
             ELSE FromIsoFormat(ReplaceZ(s.s))

(* ------------------------------ float() -------------------------------- *)

\* float(v) as [ok, milli]: ok is FALSE for the ValueError / TypeError, milli
\* is the value in thousandths.  A str is parsed as Python does for plain
\* decimals: surrounding whitespace stripped, an optional sign, digits with an
\* optional point (at most three decimals are kept).
PyFloat(v) ==
    IF v.t = "num" THEN [ok |-> TRUE, milli |-> 1000 * v.n]
    ELSE IF v.t = "float" THEN [ok |-> TRUE, milli |-> v.n]
    ELSE IF v.t # "str" THEN [ok |-> FALSE, milli |-> 0]
    ELSE
      LET cs0 == Strip(v.s)
          neg == Len(cs0) > 0 /\ cs0[1] = "-"
          cs == IF Len(cs0) > 0 /\ cs0[1] \in {"-", "+"} THEN Tail(cs0) ELSE cs0
          dots == Positions(cs, ".")
          p == IF dots = {} THEN Len(cs) + 1 ELSE CHOOSE i \in dots : TRUE
          ip == SubSeq(cs, 1, p - 1)
          fp == SubSeq(cs, p + 1, Len(cs))
          fp3 == Prefix(fp \o <<"0", "0", "0">>, 3)
          okk == /\ Cardinality(dots) <= 1
                 /\ AllDigits(ip) /\ AllDigits(fp)
                 /\ Len(ip) + Len(fp) > 0
          mag == 1000 * NatOf(ip) + NatOf(fp3)
      IN  IF okk THEN [ok |-> TRUE, milli |-> IF neg THEN 0 - mag ELSE mag]
          ELSE [ok |-> FALSE, milli |-> 0]

(* ------------------------------ raw records ---------------------------- *)

\* One element of a page's record collection.  A procurement notice is a dict
\* (t = "dict") of which the program reads four keys; t = "str" is an element
\* that is a string, not a dict (what iterating a dict or a str yields).
\* orgaoEntidade is [t, esferaId]: t = "dict" when it is an object.
RawRecord(enc, hom, sit, org) ==
    [t |-> "dict",
     dataEncerramentoProposta |-> enc,
     valorTotalHomologado |-> hom,
     situacaoCompraNome |-> sit,
     orgaoEntidade |-> org]

NoOrgao == [t |-> "absent", esferaId |-> Absent]

Orgao(esfera) == [t |-> "dict", esferaId |-> esfera]

StrElement == [t |-> "str",
               dataEncerramentoProposta |-> Absent,
               valorTotalHomologado |-> Absent,
               situacaoCompraNome |-> Absent,
               orgaoEntidade |-> NoOrgao]

(* ------------------------------ is_encerrada (lines 83-105) ------------ *)

Encerradas == {<<"r", "e", "v", "o", "g", "a", "d", "a">>,
               <<"a", "n", "u", "l", "a", "d", "a">>,
               <<"s", "u", "s", "p", "e", "n", "s", "a">>}

\* Line 90: (rec.get("situacaoCompraNome") or "").strip().lower() raises
\* AttributeError when rec is no dict, or when the value is truthy and no str.
situacao_raises(rec) ==
    \/ rec.t # "dict"
    \/ Truthy(rec.situacaoCompraNome) /\ rec.situacaoCompraNome.t # "str"

situacao(rec) ==
    IF Truthy(rec.situacaoCompraNome)
    THEN Lower(Strip(rec.situacaoCompraNome.s))
    ELSE <<>>

\* Line 91: rec.get("valorTotalHomologado") or 0
v_hom(rec) ==
    IF Truthy(rec.valorTotalHomologado) THEN rec.valorTotalHomologado ELSE Num(0)

\* Lines 93-97
enc_data_ok(rec, today) ==
    LET dt_date == only_date_from_api(Get(rec.dataEncerramentoProposta))
    IN  dt_date # NoDate /\ DateLeq(dt_date, today)

\* Line 99
enc_sit(rec) == situacao(rec) \in Encerradas

\* Lines 100-103
enc_hom(rec) ==
    LET f == PyFloat(v_hom(rec)) IN f.ok /\ f.milli > 0

\* is_encerrada as [exc, val]: exc names the exception that leaves the
\* function ("" when it returns), val is the value returned.
is_encerrada(rec, today) ==
    IF situacao_raises(rec)
    THEN [exc |-> "AttributeError", val |-> FALSE]
    ELSE [exc |-> "",
          val |-> enc_data_ok(rec, today) \/ enc_sit(rec) \/ enc_hom(rec)]

(* ------------------------------ record collections -------------------- *)

\* Bounds of the model.
MaxPage == 3

MaxCadence == 2

\* The local dates in America/Sao_Paulo during a run (lines 67-69): the date
\* when the run starts, then the dates that follow if midnight passes.
WallDateSeq == << <<2025, 6, 1>>, <<2025, 6, 2>> >>

WallDates == {WallDateSeq[i] : i \in 1..Len(WallDateSeq)}

ESFERA_M == Str(<<"M">>)

ESFERA_E == Str(<<"E">>)

\* The notices the upstream source serves, by body.  A page's collection holds
\* references [pg, ix, k] to them: the ix-th element of page pg, with body
\* RecordPool[k] (Python lists hold references to the dicts as well).
RecordPool == <<
    \* 1: closing date passed, municipal
    RawRecord(Str(<<"2", "0", "2", "0", "-", "0", "1", "-", "0", "1", "T", "0", "0", ":", "0", "0", ":", "0", "0">>), Num(0),
              Str(<<"E", "m", " ", "a", "n", "d", "a", "m", "e", "n", "t", "o">>), Orgao(ESFERA_M)),
    \* 2: still open, municipal
    RawRecord(Str(<<"2", "0", "2", "5", "-", "0", "6", "-", "0", "2", "T", "0", "9", ":", "0", "0", ":", "0", "0">>), Num(0),
              Str(<<"D", "i", "v", "u", "l", "g", "a", "d", "a", " ", "n", "o", " ", "P", "N", "C", "P">>), Orgao(ESFERA_M)),
    \* 3: revoked, state level
    RawRecord(None, Num(0), Str(<<" ", "R", "e", "v", "o", "g", "a", "d", "a">>), Orgao(ESFERA_E)),
    \* 4: homologated, orgaoEntidade without esferaId
    RawRecord(Str(<<"2", "0", "2", "5", "-", "1", "2", "-", "3", "1", "T", "2", "3", ":", "5", "9", ":", "5", "9">>), Num(1500),
              Str(<<"D", "i", "v", "u", "l", "g", "a", "d", "a", " ", "n", "o", " ", "P", "N", "C", "P">>), Orgao(Absent)),
    \* 5: still open, state level
    RawRecord(Absent, None, Str(<<"D", "i", "v", "u", "l", "g", "a", "d", "a", " ", "n", "o", " ", "P", "N", "C", "P">>), Orgao(ESFERA_E)),
    \* 6: closing date is the run's date, orgaoEntidade null
    RawRecord(Str(<<"2", "0", "2", "5", "-", "0", "6", "-", "0", "1", "T", "2", "3", ":", "5", "9", ":", "5", "9">>), None, None,
              [t |-> "none", esferaId |-> Absent]),
    \* 7: suspended, no orgaoEntidade key
    RawRecord(Absent, Absent, Str(<<"S", "U", "S", "P", "E", "N", "S", "A">>), NoOrgao),
    \* 8: an element that is a str, not a dict
    StrElement >>

\* The bodies a page cycles through, by pattern: 1 mixed, 2 all still open.
Patterns == << <<1, 2, 3, 4, 5, 6, 7>>, <<2, 5>> >>

KEY_ELEMENT == Len(RecordPool)

Body(r) == RecordPool[r.k]

\* The n records of page p under pattern pat.
PageRecs(p, n, pat) ==
    [i \in 1..n |->
        [pg |-> p, ix |-> i,
         k |-> Patterns[pat][((i - 1) % Len(Patterns[pat])) + 1]]]

\* What list(x) yields for a dict (its keys) or a str (its characters): n
\* elements that are strings.
StrElements(p, n) == [i \in 1..n |-> [pg |-> p, ix |-> i, k |-> KEY_ELEMENT]]

(* ------------------------------ page payloads -------------------------- *)

\* A value found where the record collection is expected: recs are the
\* elements when it is a list; n is the int, or the number of keys of an
\* object, or the number of characters of a str.
Coll(t, n, recs) == [t |-> t, n |-> n, recs |-> recs]

NoColl == Coll("absent", 0, <<>>)

CollList(recs) == Coll("list", Len(recs), recs)

CollTruthy(c) ==
    CASE c.t = "list" -> Len(c.recs) > 0
      [] c.t \in {"num", "dict", "str"} -> c.n > 0
      [] OTHER -> FALSE

\* What r.json() returns: a JSON object (t = "dict") with the keys data, Data
\* and totalPaginas, each possibly missing, or a bare JSON array (t = "list")
\* holding items.
Payload(t, items, data, Data, total) ==
    [t |-> t, items |-> items, data |-> data, Data |-> Data, totalPaginas |-> total]

\* len(payload) for a JSON object: the keys it holds.
KeyCount(pl) ==
    (IF pl.data.t # "absent" THEN 1 ELSE 0)
    + (IF pl.Data.t # "absent" THEN 1 ELSE 0)
    + (IF pl.totalPaginas.t # "absent" THEN 1 ELSE 0)

\* totalPaginas as the source may send it.
HintChoices == {Absent, Num(1), Num(MaxPage - 1)}

\* The 2xx responses the source may give for page p.  The data set ends at
\* MaxPage: a full page is served only before it.
Payloads(p) ==
    LET full == IF p < MaxPage
                THEN {Payload("dict", <<>>, CollList(PageRecs(p, PAGE_SIZE, pat)), NoColl, h) :
                        pat \in 1..Len(Patterns), h \in HintChoices}
                     \cup {Payload("dict", <<>>, NoColl, CollList(PageRecs(p, PAGE_SIZE, 1)), Absent)}
                ELSE {}
        short == {Payload("dict", <<>>, CollList(PageRecs(p, n, pat)), NoColl, h) :
                        n \in {1, PAGE_SIZE - 1}, pat \in 1..Len(Patterns), h \in {Absent, Num(p)}}
        empty == {Payload("dict", <<>>, CollList(<<>>), NoColl, h) : h \in {Absent, Num(0)}}
                 \cup {Payload("dict", <<>>, NoColl, NoColl, Absent)}
        odd == {Payload("list", PageRecs(p, 2, 1), NoColl, NoColl, Absent),
                Payload("dict", <<>>, NoColl, NoColl, Num(p)),
                Payload("dict", <<>>, Coll("num", 7, <<>>), NoColl, Absent),
                Payload("dict", <<>>, Coll("dict", 2, <<>>), NoColl, Absent),
                Payload("dict", <<>>, Coll("str", 4, <<>>), NoColl, Absent)}
    IN  full \cup short \cup empty \cup odd

(* ------------------------------ state ---------------------------------- *)

VARIABLES
    pc,                  \* where the job and its generator stand
    start_page, end_page, checkpoint_pages, esfera_alvo, only_us, only_br,
    wall_date,           \* the local calendar date
    \* run_query_stream's locals
    page, total_paginas_hint, today_brt, registros, filtrados,
    \* fetch_page's local
    attempt,
    \* run_pncp_job's locals
    total_registros, outputs_all, buffer_raw, chunk_first_page, last_page_seen,
    total_paginas_global, result,
    \* the output directory
    disk,
    \* history: HTTP requests sent for the current page, warnings printed for
    \* it, Page Results yielded, chunks handed to save_chunk
    http_calls, warnings, yielded, flushed,
    \* history: the shape of the last payload a request was answered with
    served,
    \* history: the pages whose request was answered with a payload, in order
    fetched_pages,
    \* the classifier taken alone: its input, reference date and outcome
    cl_pc, cl_in, cl_today, cl_out,
    \* the standard encoder taken alone: the column, the value and the cell
    enc_pc, enc_key, enc_value, enc_cell,
    \* flatten_dict taken alone: the record and the mapping returned
    fl_pc, fl_d, fl_items,
    \* the window: the thread self.worker_thread refers to, the number of
    \* worker threads alive, the Start button, the status label, the
    \* callbacks handed to Tk's event queue, and the last message box shown
    worker_thread, live_threads, btn_run, lbl_status, after_queue, dialog

args == <<start_page, end_page, checkpoint_pages, esfera_alvo, only_us, only_br, wall_date>>

stream_vars == <<page, total_paginas_hint, today_brt, registros, filtrados>>

fetch_vars == <<attempt, http_calls, warnings>>

job_vars == <<total_registros, outputs_all, buffer_raw, chunk_first_page,
              last_page_seen, total_paginas_global, disk, flushed>>

cl_vars == <<cl_pc, cl_in, cl_today, cl_out>>

enc_vars == <<enc_pc, enc_key, enc_value, enc_cell>>

fl_vars == <<fl_pc, fl_d, fl_items>>

gui_vars == <<worker_thread, live_threads, btn_run, lbl_status, after_queue, dialog>>

vars == <<pc, args, stream_vars, fetch_vars, job_vars, result, yielded, served, fetched_pages, cl_vars, enc_vars, fl_vars, gui_vars>>

(* ------------------------------ run_query_stream (lines 130-184) ------- *)

\* is_encerrada tabulated over the bodies served and the dates a run can start
\* on: entry [i][k] is is_encerrada(RecordPool[k], WallDateSeq[i]).
EncerradaTable ==
    [i \in 1..Len(WallDateSeq) |->
        [k \in 1..Len(RecordPool) |-> is_encerrada(RecordPool[k], WallDateSeq[i])]]

DateIndex(d) == CHOOSE i \in 1..Len(WallDateSeq) : WallDateSeq[i] = d

\* Lines 162-166: rec.get("orgaoEntidade", {}).get("esferaId"), None when it
\* raises (rec or orgaoEntidade is no dict).
esfera_of(rec) ==
    IF rec.t # "dict" THEN None
    ELSE IF rec.orgaoEntidade.t = "absent" THEN None
    ELSE IF rec.orgaoEntidade.t # "dict" THEN None
    ELSE Get(rec.orgaoEntidade.esferaId)

skip_esfera_absent(rec, alvo) ==
    Truthy(alvo) /\ (~Truthy(esfera_of(rec)) \/ esfera_of(rec) # alvo)

\* Line 167: the record is skipped by the scope filter.
skip_esfera(rec, alvo) ==
    Truthy(alvo) /\ Truthy(esfera_of(rec)) /\ esfera_of(rec) # alvo

\* Lines 149-154: the record collection of a payload that is a JSON object.
extract_registros(pl, p) ==
    LET c == IF CollTruthy(pl.data) THEN pl.data
             ELSE IF CollTruthy(pl.Data) THEN pl.Data
             ELSE Coll("dict", KeyCount(pl), <<>>)
    IN  CASE c.t = "list" -> c.recs
          [] c.t \in {"dict", "str"} -> StrElements(p, c.n)
          [] OTHER -> <<>>

\* Lines 160-170 as [exc, filtrados]: the records kept, or the exception
\* is_encerrada raised on a record the scope filter let through.
filter_page(regs, alvo, today) ==
    LET through == SelectSeq(regs, LAMBDA r : ~skip_esfera(Body(r), alvo))
        raised == \E i \in 1..Len(through) : EncerradaTable[DateIndex(today)][through[i].k].exc # ""
    IN  IF raised THEN [exc |-> "AttributeError", filtrados |-> <<>>]
        ELSE [exc |-> "",
              filtrados |-> SelectSeq(through, LAMBDA r : EncerradaTable[DateIndex(today)][r.k].val)]

reference_date_now(captured, current) == current

\* Lines 143 and 169: the classifier is handed the local today_brt, read once.
reference_date(captured, current) == captured

capture_hint_any_page(p, first, total, hint) ==
    IF total.t # "none" THEN total ELSE hint

\* Lines 156-157: the hint is read from the payload of the first page only.
capture_hint(p, first, total, hint) ==
    IF p = first THEN total ELSE hint

stop_after_page_no_end(p, regs, hint, endp) ==
    \/ hint.t = "num" /\ p >= hint.n
    \/ Len(regs) < PAGE_SIZE

stop_after_page_gt(p, regs, hint, endp) ==
    \/ endp.t = "num" /\ p > endp.n
    \/ hint.t = "num" /\ p >= hint.n
    \/ Len(regs) < PAGE_SIZE

\* Lines 175-182: the stream ends after page p.
stop_after_page(p, regs, hint, endp) ==
    \/ endp.t = "num" /\ p >= endp.n
    \/ hint.t = "num" /\ p >= hint.n
    \/ Len(regs) = 0 \/ Len(regs) < PAGE_SIZE

(* ------------------------------ save_chunk (lines 269-292) ------------- *)

\* f"{base}_p{first}-{last}{suffix}"; abs tells a path made absolute.
Path(first, last, suffix, abs) ==
    [first |-> first, last |-> last, suffix |-> suffix, abs |-> abs]

\* os.path.abspath
abspath(path) == [path EXCEPT !.abs = TRUE]

SUFFIX_US == ".csv"

SUFFIX_BR == "_BR.csv"

\* Lines 283-291: the variants written, in order.
variants(us, br) ==
    (IF ~br THEN <<SUFFIX_US>> ELSE <<>>) \o (IF ~us THEN <<SUFFIX_BR>> ELSE <<>>)

\* What open(outfile, "w") and the writer leave on disk: the file at the
\* path's absolute place, with its header and nrows data rows; want is the
\* number of rows of the chunk it belongs to.
File(path, header, nrows, want) ==
    [path |-> abspath(path), header |-> header, nrows |-> nrows, want |-> want]

put_file(d, f) == {g \in d : g.path # f.path} \cup {f}

\* How one write_csv_us / write_csv_br call can end: written in full, open()
\* failed (no file), or a row failed after the header and j rows.
IoOutcomes(nrows) ==
    {[kind |-> "ok", rows |-> nrows], [kind |-> "open_error", rows |-> 0]}
    \cup {[kind |-> "write_error", rows |-> j] : j \in {0, nrows - 1}}

\* save_chunk as [exc, outputs, disk]: io[i] is how the i-th write ends.
RECURSIVE save_files(_, _, _, _, _, _, _)
save_files(vs, i, io, rows, first, last, acc) ==
    IF i > Len(vs) THEN [exc |-> "", outputs |-> acc.outputs, disk |-> acc.disk]
    ELSE LET path == Path(first, last, vs[i], FALSE)
             o == io[i]
         IN  IF o.kind = "ok"
             THEN save_files(vs, i + 1, io, rows, first, last,
                      [outputs |-> Append(acc.outputs, abspath(path)),
                       disk |-> put_file(acc.disk, File(path, TRUE, Len(rows), Len(rows)))])
             ELSE IF o.kind = "open_error"
             THEN [exc |-> "OSError", outputs |-> <<>>, disk |-> acc.disk]
             ELSE [exc |-> "OSError", outputs |-> <<>>,
                   disk |-> put_file(acc.disk, File(path, TRUE, o.rows, Len(rows)))]

save_chunk(rows, first, last, us, br, io, d) ==
    IF Len(rows) = 0 THEN [exc |-> "", outputs |-> <<>>, disk |-> d]
    ELSE save_files(variants(us, br), 1, io, rows, first, last,
                    [outputs |-> <<>>, disk |-> d])

\* The ways the writes of one save_chunk call can end.
IoChoices(rows, us, br) ==
    IF Len(rows) = 0 THEN {<<>>}
    ELSE [1..Len(variants(us, br)) -> IoOutcomes(Len(rows))]

(* ------------------------------ the job -------------------------------- *)

\* The shape of a payload as its reader sees it: a JSON object or a bare
\* array, and the value found where the records are expected (under data,
\* else under Data): its type, "missing" when neither key is there, and
\* its length; total is the payload's totalPaginas.
PayloadShape(pl) ==
    LET c == IF pl.data.t # "absent" THEN pl.data ELSE pl.Data
    IN  IF pl.t = "list"
        THEN [t |-> "list", coll |-> "list", n |-> Len(pl.items), total |-> Absent]
        ELSE [t |-> pl.t,
              coll |-> IF c.t = "absent" THEN "missing" ELSE c.t,
              n |-> IF c.t = "list" THEN Len(c.recs) ELSE c.n,
              total |-> pl.totalPaginas]

NoShape == [t |-> "", coll |-> "", n |-> 0, total |-> Absent]

NoResult == [ok |-> FALSE, error |-> "", total_registros |-> 0, outputs |-> <<>>]

ClassifierOff ==
    /\ cl_pc = "off"
    /\ cl_in = <<>>
    /\ cl_today = NoDate
    /\ cl_out = [exc |-> "", val |-> FALSE]

EncoderOff ==
    /\ enc_pc = "off"
    /\ enc_key = <<>>
    /\ enc_value = None
    /\ enc_cell = None

FlattenOff ==
    /\ fl_pc = "off"
    /\ fl_d = <<>>
    /\ fl_items = <<>>

\* __init__ and _build_widgets, lines 428 and 536-540.
GuiBuilt ==
    /\ worker_thread = "None"
    /\ live_threads = 0
    /\ btn_run = "normal"
    /\ lbl_status = "Pronto."
    /\ after_queue = <<>>
    /\ dialog = ""

\* run_pncp_job is entered (lines 322-330) with arguments the form accepts
\* (lines 638-664): pages and cadence are integers >= 1, the end page may be
\* empty, the two "only" boxes are independent.
Init ==
    /\ pc = "start"
    /\ start_page \in {1, 2}
    /\ end_page \in {None} \cup {Num(e) : e \in 1..MaxPage}
    /\ checkpoint_pages \in 1..MaxCadence
    /\ esfera_alvo \in {None, ESFERA_M}
    /\ only_us \in BOOLEAN
    /\ only_br \in BOOLEAN
    /\ wall_date = WallDateSeq[1]
    /\ page = 0
    /\ total_paginas_hint = None
    /\ today_brt = NoDate
    /\ registros = <<>>
    /\ filtrados = <<>>
    /\ attempt = 0
    /\ http_calls = 0
    /\ warnings = <<>>
    /\ total_registros = 0
    /\ outputs_all = <<>>
    /\ buffer_raw = <<>>
    /\ chunk_first_page = start_page
    /\ last_page_seen = start_page - 1
    /\ total_paginas_global = None
    /\ result = NoResult
    /\ disk = {}
    /\ yielded = <<>>
    /\ flushed = <<>>
    /\ served = NoShape
    /\ fetched_pages = <<>>
    /\ ClassifierOff
    /\ EncoderOff
    /\ FlattenOff
    /\ GuiBuilt

buffer_extend_front(buf, recs) == recs \o buf

\* Line 366: buffer_raw.extend(filtrados)
buffer_extend(buf, recs) == buf \o recs

pages_in_chunk_abs(last, first) == last

\* Line 369
pages_in_chunk(last, first) == last - first + 1

next_chunk_first_same(last) == last

\* Line 380: chunk_first_page = last_page_seen + 1
next_chunk_first(last) == last + 1

job_failed_no_outputs(exc) ==
    [ok |-> FALSE, error |-> exc, total_registros |-> total_registros,
     outputs |-> <<>>]

\* Lines 394-400: an exception from the stream or from save_chunk ends the job.
job_failed(exc) ==
    [ok |-> FALSE, error |-> exc, total_registros |-> total_registros,
     outputs |-> outputs_all]

retry_wait_exp(k) == 2 ^ k

\* Line 126: wait = RETRY_BACKOFF_SECONDS * attempt
retry_wait(k) == RETRY_BACKOFF_SECONDS * k

\* Lines 142-145: the first next() on the generator runs it up to the fetch.
StreamStart ==
    /\ pc = "start"
    /\ today_brt' = wall_date
    /\ page' = start_page
    /\ total_paginas_hint' = None
    /\ pc' = "fetch"
    /\ UNCHANGED <<args, registros, filtrados, fetch_vars, job_vars, result, yielded, served, fetched_pages, cl_vars, enc_vars, fl_vars, gui_vars>>

\* Lines 119-128: the request of fetch_page fails (connection error, timeout,
\* or raise_for_status on a non-2xx answer).  The last failure allowed is
\* re-raised, through the generator, into the job's except clause.
FetchFail ==
    /\ pc = "fetch"
    /\ \E exc \in {"ConnectionError", "Timeout", "HTTPError"} :
         /\ http_calls' = http_calls + 1
         /\ attempt' = attempt + 1
         /\ IF attempt + 1 >= MAX_RETRIES
            THEN /\ result' = job_failed(exc)
                 /\ pc' = "done"
                 /\ warnings' = warnings
            ELSE /\ warnings' = Append(warnings,
                        [page |-> page, wait |-> retry_wait(attempt + 1)])
                 /\ UNCHANGED <<result, pc>>
    /\ UNCHANGED <<args, stream_vars, job_vars, yielded, served, fetched_pages, cl_vars, enc_vars, fl_vars, gui_vars>>

\* Lines 119-121 and 149-172: the request succeeds, fetch_page returns the
\* payload, and the stream extracts, filters and yields the page (or raises).
FetchOk ==
    /\ pc = "fetch"
    /\ \E pl \in Payloads(page) :
         /\ http_calls' = http_calls + 1
         /\ served' = PayloadShape(pl)
         /\ fetched_pages' = Append(fetched_pages, page)
         /\ IF pl.t # "dict"
            THEN /\ result' = job_failed("AttributeError")
                 /\ pc' = "done"
                 /\ UNCHANGED <<stream_vars, yielded>>
            ELSE LET regs == extract_registros(pl, page)
                     hint == capture_hint(page, start_page, Get(pl.totalPaginas),
                                          total_paginas_hint)
                     f == filter_page(regs, esfera_alvo,
                                      reference_date(today_brt, wall_date))
                 IN  /\ registros' = regs
                     /\ total_paginas_hint' = hint
                     /\ IF f.exc # ""
                        THEN /\ result' = job_failed(f.exc)
                             /\ pc' = "done"
                             /\ UNCHANGED <<filtrados, yielded>>
                        ELSE /\ filtrados' = f.filtrados
                             /\ yielded' = Append(yielded,
                                    [page |-> page, hint |-> hint, recs |-> f.filtrados,
                                     fetched |-> Len(regs)])
                             /\ pc' = "yielded"
                             /\ result' = result
                     /\ UNCHANGED <<page, today_brt>>
    /\ UNCHANGED <<args, attempt, warnings, job_vars, cl_vars, enc_vars, fl_vars, gui_vars>>

\* Lines 343-380: the loop body of run_pncp_job for the Page Result yielded,
\* with the checkpoint flush when the cadence is reached.
JobPage ==
    /\ pc = "yielded"
    /\ total_paginas_global' =
          IF total_paginas_global.t = "none" /\ total_paginas_hint.t # "none"
          THEN total_paginas_hint ELSE total_paginas_global
    /\ last_page_seen' = page
    /\ total_registros' = total_registros + Len(filtrados)
    /\ LET buf == buffer_extend(buffer_raw, filtrados)
       IN  IF pages_in_chunk(page, chunk_first_page) % checkpoint_pages = 0
           THEN \E io \in IoChoices(buf, only_us, only_br) :
                  LET s == save_chunk(buf, chunk_first_page, page, only_us, only_br, io, disk)
                  IN  /\ disk' = s.disk
                      /\ flushed' = Append(flushed,
                             [first |-> chunk_first_page, last |-> page, rows |-> buf,
                              outputs |-> s.outputs, exc |-> s.exc])
                      /\ IF s.exc # ""
                         THEN /\ result' = [ok |-> FALSE, error |-> s.exc,
                                            total_registros |-> total_registros + Len(filtrados),
                                            outputs |-> outputs_all]
                              /\ pc' = "done"
                              /\ buffer_raw' = buf
                              /\ UNCHANGED <<outputs_all, chunk_first_page>>
                         ELSE /\ outputs_all' = outputs_all \o s.outputs
                              /\ buffer_raw' = <<>>
                              /\ chunk_first_page' = next_chunk_first(page)
                              /\ pc' = "resume"
                              /\ result' = result
           ELSE /\ buffer_raw' = buf
                /\ pc' = "resume"
                /\ UNCHANGED <<outputs_all, chunk_first_page, disk, flushed, result>>
    /\ UNCHANGED <<args, stream_vars, fetch_vars, yielded, served, fetched_pages, cl_vars, enc_vars, fl_vars, gui_vars>>

\* Lines 174-184: the generator is resumed after the yield; it ends or moves
\* on to the next page.
StreamResume ==
    /\ pc = "resume"
    /\ IF stop_after_page(page, registros, total_paginas_hint, end_page)
       THEN /\ pc' = "exhausted"
            /\ UNCHANGED <<page, fetch_vars>>
       ELSE /\ page' = page + 1
            /\ attempt' = 0
            /\ http_calls' = 0
            /\ warnings' = <<>>
            /\ pc' = "fetch"
    /\ UNCHANGED <<args, total_paginas_hint, today_brt, registros, filtrados,
                   job_vars, result, yielded, served, fetched_pages, cl_vars, enc_vars, fl_vars, gui_vars>>

\* Lines 382-417: the stream is exhausted; the last block is saved and the
\* job returns.
JobFinish ==
    /\ pc = "exhausted"
    /\ IF Len(buffer_raw) > 0
       THEN \E io \in IoChoices(buffer_raw, only_us, only_br) :
              LET s == save_chunk(buffer_raw, chunk_first_page, last_page_seen,
                                  only_us, only_br, io, disk)
              IN  /\ disk' = s.disk
                  /\ flushed' = Append(flushed,
                         [first |-> chunk_first_page, last |-> last_page_seen,
                          rows |-> buffer_raw, outputs |-> s.outputs, exc |-> s.exc])
                  /\ IF s.exc # ""
                     THEN /\ result' = job_failed(s.exc)
                          /\ UNCHANGED <<outputs_all, buffer_raw>>
                     ELSE /\ outputs_all' = outputs_all \o s.outputs
                          /\ buffer_raw' = <<>>
                          /\ result' = [ok |-> TRUE, error |-> "",
                                        total_registros |-> total_registros,
                                        outputs |-> outputs_all \o s.outputs]
       ELSE /\ result' = [ok |-> TRUE, error |-> "",
                          total_registros |-> total_registros, outputs |-> outputs_all]
            /\ UNCHANGED <<outputs_all, buffer_raw, disk, flushed>>
    /\ pc' = "done"
    /\ UNCHANGED <<args, stream_vars, fetch_vars, total_registros, chunk_first_page,
                   last_page_seen, total_paginas_global, yielded, served, fetched_pages, cl_vars, enc_vars, fl_vars, gui_vars>>

\* Midnight passes in America/Sao_Paulo while a request of fetch_page is in
\* flight or its back-off sleep runs (lines 119 and 128, where a run spends
\* its time): datetime.now(br_tz).date() would now give the next date.
DayChange ==
    /\ pc = "fetch"
    /\ \E i \in 1..(Len(WallDateSeq) - 1) :
          /\ wall_date = WallDateSeq[i]
          /\ wall_date' = WallDateSeq[i + 1]
    /\ UNCHANGED <<pc, start_page, end_page, checkpoint_pages, esfera_alvo, only_us,
                   only_br, stream_vars, fetch_vars, job_vars, result, yielded, served,
                   fetched_pages, cl_vars, enc_vars, fl_vars, gui_vars>>

Next ==
    \/ StreamStart
    \/ FetchFail
    \/ FetchOk
    \/ JobPage
    \/ StreamResume
    \/ JobFinish

Spec == Init /\ [][Next]_vars

\* The job's thread runs its code step after step: a request returns or
\* raises within its timeout (line 119, timeout_s = 90), a back-off sleep
\* ends (line 128), and nothing else can hold a step back.
SpecFair == Init /\ [][Next]_vars /\ WF_vars(Next)

\* Runs during which the local date may change.  What the stream does with
\* dates does not depend on the output variants or on the cadence: both
\* variants are written, after every page.
InitMidnight ==
    /\ Init
    /\ only_us = FALSE
    /\ only_br = FALSE
    /\ checkpoint_pages = 1

NextMidnight ==
    \/ DayChange
    \/ Next

SpecMidnight == InitMidnight /\ [][NextMidnight]_vars

(* ------------------------------ the classifier alone ------------------- *)

\* Values of dataEncerramentoProposta to classify.  v is the value; date is
\* the calendar day the text names (NoDate when it names none); typed tells
\* a value of the type the source documents (a string, null or missing).
DateInputs == {
    [v |-> Absent, date |-> NoDate, typed |-> TRUE],
    [v |-> None, date |-> NoDate, typed |-> TRUE],
    [v |-> Str(<<>>), date |-> NoDate, typed |-> TRUE],
    [v |-> Str(<<"2", "0", "2", "0", "-", "0", "1", "-", "0", "1">>), date |-> <<2020, 1, 1>>, typed |-> TRUE],
    [v |-> Str(<<"2", "0", "2", "0", "-", "1", "-", "5">>), date |-> <<2020, 1, 5>>, typed |-> TRUE],
    [v |-> Str(<<"2", "0", "2", "5", "-", "0", "6", "-", "0", "1", "T", "2", "3", ":", "5", "9", ":", "5", "9">>), date |-> <<2025, 6, 1>>, typed |-> TRUE],
    [v |-> Str(<<"2", "0", "2", "5", "-", "0", "6", "-", "0", "2", "T", "0", "0", ":", "0", "0", ":", "0", "0">>), date |-> <<2025, 6, 2>>, typed |-> TRUE],
    [v |-> Str(<<"2", "0", "2", "4", "-", "0", "2", "-", "2", "9", "T", "1", "2", ":", "0", "0", ":", "0", "0", "Z">>), date |-> <<2024, 2, 29>>, typed |-> TRUE],
    [v |-> Str(<<"2", "0", "2", "3", "-", "0", "2", "-", "2", "9">>), date |-> NoDate, typed |-> TRUE],
    [v |-> Str(<<"s", "e", "m", " ", "d", "a", "t", "a">>), date |-> NoDate, typed |-> TRUE],
    [v |-> Num(20200101), date |-> NoDate, typed |-> FALSE],
    [v |-> ListOf(1), date |-> NoDate, typed |-> FALSE],
    [v |-> DictOf(2), date |-> NoDate, typed |-> FALSE] }

\* Values of valorTotalHomologado.  milli is the number in thousandths when
\* the value is a number; typed tells a number, null or missing.
ValueInputs == {
    [v |-> Absent, number |-> FALSE, milli |-> 0, typed |-> TRUE],
    [v |-> None, number |-> FALSE, milli |-> 0, typed |-> TRUE],
    [v |-> Num(0), number |-> TRUE, milli |-> 0, typed |-> TRUE],
    [v |-> Num(0 - 100), number |-> TRUE, milli |-> 0 - 100000, typed |-> TRUE],
    [v |-> Flt(10), number |-> TRUE, milli |-> 10, typed |-> TRUE],
    [v |-> Num(250000), number |-> TRUE, milli |-> 250000000, typed |-> TRUE],
    [v |-> Str(<<"a", "b", "c">>), number |-> FALSE, milli |-> 0, typed |-> FALSE],
    [v |-> Str(<<"1", "2", ".", "5">>), number |-> FALSE, milli |-> 0, typed |-> FALSE],
    [v |-> ListOf(1), number |-> FALSE, milli |-> 0, typed |-> FALSE],
    [v |-> DictOf(1), number |-> FALSE, milli |-> 0, typed |-> FALSE] }

\* Values of situacaoCompraNome.  norm is the status the text names once
\* trimmed and lower-cased ("" when there is no text); typed tells a string,
\* null or missing.
StatusInputs == {
    [v |-> Absent, norm |-> "", typed |-> TRUE],
    [v |-> None, norm |-> "", typed |-> TRUE],
    [v |-> Str(<<>>), norm |-> "", typed |-> TRUE],
    [v |-> Str(<<"R", "e", "v", "o", "g", "a", "d", "a">>), norm |-> "revogada", typed |-> TRUE],
    [v |-> Str(<<" ", "A", "N", "U", "L", "A", "D", "A", " ">>), norm |-> "anulada", typed |-> TRUE],
    [v |-> Str(<<"s", "u", "s", "p", "e", "n", "s", "a", "\n">>), norm |-> "suspensa", typed |-> TRUE],
    [v |-> Str(<<"E", "m", " ", "a", "n", "d", "a", "m", "e", "n", "t", "o">>), norm |-> "em andamento", typed |-> TRUE],
    [v |-> Str(<<"R", "e", "v", "o", "g", "a", "d", "a", " ", "p", "a", "r", "c", "i", "a", "l", "m", "e", "n", "t", "e">>), norm |-> "revogada parcialmente", typed |-> TRUE],
    [v |-> Num(0), norm |-> "", typed |-> FALSE],
    [v |-> ListOf(0), norm |-> "", typed |-> FALSE],
    [v |-> Num(3), norm |-> "", typed |-> FALSE],
    [v |-> ListOf(1), norm |-> "", typed |-> FALSE] }

ReferenceDates == {<<2019, 12, 31>>, <<2020, 1, 1>>, <<2024, 2, 29>>, <<2025, 6, 1>>}

\* The record handed to is_encerrada.
ClassifierRecord(in) == RawRecord(in.date.v, in.value.v, in.status.v, NoOrgao)

\* The job at rest, while the classifier is exercised alone.
JobOff ==
    /\ pc = "off"
    /\ start_page = 1
    /\ end_page = None
    /\ checkpoint_pages = 1
    /\ esfera_alvo = None
    /\ only_us = FALSE
    /\ only_br = FALSE
    /\ wall_date = WallDateSeq[1]
    /\ page = 0
    /\ total_paginas_hint = None
    /\ today_brt = NoDate
    /\ registros = <<>>
    /\ filtrados = <<>>
    /\ attempt = 0
    /\ http_calls = 0
    /\ warnings = <<>>
    /\ total_registros = 0
    /\ outputs_all = <<>>
    /\ buffer_raw = <<>>
    /\ chunk_first_page = 1
    /\ last_page_seen = 0
    /\ total_paginas_global = None
    /\ result = NoResult
    /\ disk = {}
    /\ yielded = <<>>
    /\ flushed = <<>>
    /\ served = NoShape
    /\ fetched_pages = <<>>

InitClassifier ==
    /\ JobOff
    /\ cl_pc = "call"
    /\ cl_in \in [date : DateInputs, value : ValueInputs, status : StatusInputs]
    /\ cl_today \in ReferenceDates
    /\ cl_out = [exc |-> "", val |-> FALSE]
    /\ EncoderOff
    /\ FlattenOff
    /\ GuiBuilt

\* is_encerrada(rec, today_brt) is called and returns or raises.
Classify ==
    /\ cl_pc = "call"
    /\ cl_out' = is_encerrada(ClassifierRecord(cl_in), cl_today)
    /\ cl_pc' = IF cl_out'.exc = "" THEN "returned" ELSE "raised"
    /\ UNCHANGED <<pc, args, stream_vars, fetch_vars, job_vars, result, yielded,
                   served, fetched_pages, cl_in, cl_today, enc_vars, fl_vars, gui_vars>>

NextClassifier == Classify

SpecClassifier == InitClassifier /\ [][NextClassifier]_vars

(* ------------------------------ CSV cells (lines 205-246) -------------- *)

\* NUMERIC_KEYS_HINTS, lines 60-63
NUMERIC_KEYS_HINTS == {
    <<"v", "a", "l", "o", "r">>,
    <<"v", "a", "l", "o", "r", "t", "o", "t", "a", "l">>,
    <<"v", "a", "l", "o", "r", "t", "o", "t", "a", "l", "e", "s", "t", "i", "m", "a", "d", "o">>,
    <<"v", "a", "l", "o", "r", "t", "o", "t", "a", "l", "h", "o", "m", "o", "l", "o", "g", "a", "d", "o">>,
    <<"q", "u", "a", "n", "t", "i", "d", "a", "d", "e">>,
    <<"a", "n", "o">>,
    <<"n", "u", "m", "e", "r", "o">>,
    <<"c", "n", "p", "j">> }

RECURSIVE Replace(_, _, _)
\* str.replace(a, b) for a one-character a: every a becomes the characters b.
Replace(cs, a, b) ==
    IF cs = <<>> THEN <<>>
    ELSE (IF Head(cs) = a THEN b ELSE <<Head(cs)>>) \o Replace(Tail(cs), a, b)

\* sub in cs
Contains(cs, sub) ==
    \E i \in 1..(Len(cs) - Len(sub) + 1) : SubSeq(cs, i, i + Len(sub) - 1) = sub

\* str.count(c) for a one-character c
Count(cs, c) == Cardinality(Positions(cs, c))

\* str(value) where looks_numeric and to_number call it: None and numbers
\* have returned before, and a flattened leaf is no dict and no list, so the
\* value is a str and str() gives it back.
PyStr(v) == v.s

\* Line 210: key.lower().replace("_", "").replace(".", "")
hint_key(key) == Replace(Replace(Lower(key), "_", <<>>), ".", <<>>)

\* looks_numeric, lines 205-217
looks_numeric(key, value) ==
    IF value.t = "none" THEN FALSE
    ELSE IF value.t \in {"num", "float"} THEN TRUE
    ELSE IF \E h \in NUMERIC_KEYS_HINTS : Contains(hint_key(key), h)
         THEN PyFloat(Str(Replace(PyStr(value), ",", <<".">>))).ok
         ELSE FALSE

\* to_number, lines 219-229, as [ok, milli]: ok is FALSE for None.
to_number(value) ==
    IF value.t = "none" \/ value = Str(<<>>) THEN [ok |-> FALSE, milli |-> 0]
    ELSE IF value.t \in {"num", "float"} THEN PyFloat(value)
    ELSE LET s == Strip(PyStr(value))
         IN  IF Count(s, ",") = 1 /\ Count(s, ".") > 1
             THEN PyFloat(Str(Replace(Replace(s, ".", <<>>), ",", <<".">>)))
             ELSE PyFloat(Str(Replace(s, ",", <<".">>)))

\* Lines 239-244 of write_csv_us: the value put in the row for column k of a
\* flattened record whose entry for k is v (Absent when the record has no
\* such key).  None is written by csv.DictWriter as an empty cell.
us_cell(k, v) ==
    IF looks_numeric(k, Get(v))
    THEN LET n == to_number(Get(v))
         IN  IF n.ok THEN Flt(n.milli) ELSE None
    ELSE Get(v)

\* Column names given to the encoder alone.
CellKeys == {
    <<"v", "a", "l", "o", "r", "T", "o", "t", "a", "l", "E", "s", "t", "i", "m", "a", "d", "o">>,
    <<"a", "n", "o", "_", "c", "o", "m", "p", "r", "a">>,
    <<"n", "u", "m", "e", "r", "o", "C", "o", "n", "t", "r", "o", "l", "e", "P", "N", "C", "P">>,
    <<"o", "b", "j", "e", "t", "o", "C", "o", "m", "p", "r", "a">>,
    <<"o", "r", "g", "a", "o", "E", "n", "t", "i", "d", "a", "d", "e", ".", "c", "n", "p", "j">>,
    <<"V", "A", "L", "O", "R", ".", "t", "o", "t", "a", "l">>,
    <<"a", "_", "n", ".", "o">>,
    <<"m", "o", "d", "o">> }

\* Values given to the encoder alone.
CellValues == {
    Absent, None, Num(5), Num(0), Flt(12500),
    Str(<<"1", "2", ",", "5">>),
    Str(<<"1", "2", ".", "5">>),
    Str(<<"a", "b", "c">>),
    Str(<<>>),
    Str(<<" ", "7", " ">>),
    Str(<<"1", ".", "2", "3", "4", ",", "5", "6">>),
    Str(<<"1", ".", "2", "3", "4", ".", "5", "6", "7", ",", "8", "9">>),
    Str(<<"0", "0", "0", "0", "1", "-", "2", "0", "2", "4">>),
    Str(<<"-", "3">>),
    Str(<<"1", ",", "2", ",", "3">>),
    Str(<<"R", "$", " ", "1", "0">>) }

InitEncoder ==
    /\ JobOff
    /\ ClassifierOff
    /\ FlattenOff
    /\ GuiBuilt
    /\ enc_pc = "call"
    /\ enc_key \in CellKeys
    /\ enc_value \in CellValues
    /\ enc_cell = None

\* write_csv_us builds one cell of one row.
EncodeCell ==
    /\ enc_pc = "call"
    /\ enc_cell' = us_cell(enc_key, enc_value)
    /\ enc_pc' = "written"
    /\ UNCHANGED <<pc, args, stream_vars, fetch_vars, job_vars, result, yielded,
                   served, fetched_pages, cl_vars, enc_key, enc_value, fl_vars, gui_vars>>

NextEncoder == EncodeCell

SpecEncoder == InitEncoder /\ [][NextEncoder]_vars

(* ------------------------------ flatten_dict (lines 188-203) ----------- *)

\* A JSON value of a record: a scalar (t = "leaf", val its value), an object
\* (t = "dict") or an array (t = "list"); kids are the entries in order, as
\* [k, v] with k the key's characters (<<>> for the elements of an array).
Leaf(v) == [t |-> "leaf", val |-> v, kids |-> <<>>]

Entry(k, v) == [k |-> k, v |-> v]

Dict(entries) == [t |-> "dict", val |-> None, kids |-> entries]

List(elems) == [t |-> "list", val |-> None,
                kids |-> [i \in 1..Len(elems) |-> Entry(<<>>, elems[i])]]

RECURSIVE IntStr(_)
\* str(idx) of a non-negative int
IntStr(k) ==
    IF k < 10 THEN <<Digits[k + 1]>>
    ELSE IntStr(k \div 10) \o <<Digits[(k % 10) + 1]>>

\* Line 191: f"{parent_key}{sep}{k}" if parent_key else str(k), sep = "."
new_key(parent_key, k) ==
    IF parent_key # <<>> THEN parent_key \o <<".">> \o k ELSE k

\* Line 196: f"{new_key}[{idx}]"
idx_key(nk, idx) == nk \o <<"[">> \o IntStr(idx) \o <<"]">>

\* A Python dict of flattened entries, as a function from keys to values.
EmptyItems == [k \in {} |-> None]

\* items[key] = v (lines 200, 202): a key already there is overwritten.
store(items, key, v) == (key :> v) @@ items

\* items.update(more) (lines 193, 198): more's entries win.
update(items, more) == more @@ items

RECURSIVE flatten_dict(_, _)
RECURSIVE flatten_entries(_, _, _, _)
RECURSIVE flatten_elems(_, _, _, _)

\* Lines 195-200: the loop over the elements of a list, from element i on.
flatten_elems(elems, i, nk, items) ==
    IF i > Len(elems) THEN items
    ELSE LET elem == elems[i].v
             ik == idx_key(nk, i - 1)
             after == IF elem.t \in {"dict", "list"}
                      THEN update(items,
                                  flatten_dict(Dict(<<Entry(<<"_">>, elem)>>), ik))
                      ELSE store(items, ik, elem.val)
         IN  flatten_elems(elems, i + 1, nk, after)

\* Lines 190-202: the loop over the entries of d, from entry i on.
flatten_entries(entries, i, parent_key, items) ==
    IF i > Len(entries) THEN items
    ELSE LET v == entries[i].v
             nk == new_key(parent_key, entries[i].k)
             after == IF v.t = "dict" THEN update(items, flatten_dict(v, nk))
                      ELSE IF v.t = "list" THEN flatten_elems(v.kids, 1, nk, items)
                      ELSE store(items, nk, v.val)
         IN  flatten_entries(entries, i + 1, parent_key, after)

\* flatten_dict(d, parent_key), lines 188-203 (an empty d has no entries).
flatten_dict(d, parent_key) == flatten_entries(d.kids, 1, parent_key, EmptyItems)

\* Keys of the records given to flatten_dict alone.
FlatKeys == {<<"a">>, <<"b">>, <<"_">>, <<"a", ".", "b">>, <<"a", "[", "0", "]">>, <<>>}

\* Values under those keys: scalars, objects and arrays, nested at most twice.
FlatValues ==
    {Leaf(Num(1)), Leaf(None), Dict(<<>>), List(<<>>)}
    \cup {Dict(<<Entry(k, Leaf(Num(2)))>>) : k \in {<<"a">>, <<"b">>, <<"_">>}}
    \cup {List(<<Leaf(Num(3))>>), List(<<Leaf(Num(3)), Leaf(Num(4))>>),
          List(<<List(<<Leaf(Num(5))>>)>>),
          List(<<Dict(<<Entry(<<"_">>, Leaf(Num(6)))>>)>>),
          List(<<Dict(<<Entry(<<"b">>, Leaf(Num(7))), Entry(<<"_">>, Leaf(Num(8)))>>),
                 Leaf(Num(9))>>)}

\* Records of one or two entries (the keys of a dict are distinct).
FlatRecords ==
    {Dict(<<Entry(k, v)>>) : k \in FlatKeys, v \in FlatValues}
    \cup {Dict(<<Entry(e[1], e[2]), Entry(e[3], e[4])>>) :
            e \in {q \in FlatKeys \X FlatValues \X FlatKeys \X FlatValues : q[1] # q[3]}}

InitFlatten ==
    /\ JobOff
    /\ ClassifierOff
    /\ EncoderOff
    /\ GuiBuilt
    /\ fl_pc = "call"
    /\ fl_d \in FlatRecords
    /\ fl_items = EmptyItems

\* save_chunk, line 280: flatten_dict(r) for one record of the chunk.
Flatten ==
    /\ fl_pc = "call"
    /\ fl_items' = flatten_dict(fl_d, <<>>)
    /\ fl_pc' = "returned"
    /\ UNCHANGED <<pc, args, stream_vars, fetch_vars, job_vars, result, yielded,
                   served, fetched_pages, cl_vars, enc_vars, fl_d, gui_vars>>

NextFlatten == Flatten

SpecFlatten == InitFlatten /\ [][NextFlatten]_vars

(* ------------------------------ PNCPGui (lines 421-725) ---------------- *)

DEFAULT_CHECKPOINT_PAGES == 50

\* ABRANGENCIAS, line 58, each with the esfera_alvo of lines 616-636.
ABRANGENCIAS == {
    [name |-> <<"m", "u", "n", "i", "c", "i", "p", "a", "l">>, esfera |-> ESFERA_M],
    [name |-> <<"e", "s", "t", "a", "d", "u", "a", "l">>, esfera |-> ESFERA_E],
    [name |-> <<"f", "e", "d", "e", "r", "a", "l">>, esfera |-> Str(<<"F">>)],
    [name |-> <<"d", "i", "s", "t", "r", "i", "t", "a", "l">>, esfera |-> Str(<<"D">>)] }

\* str.isdigit()
isdigit(cs) == cs # <<>> /\ AllDigits(cs)

\* str.isalpha()
isalpha(cs) ==
    cs # <<>> /\ \A i \in 1..Len(cs) : \E j \in 1..26 : cs[i] \in {UpperCase[j], LowerCase[j]}

\* str.upper()
Upper(cs) ==
    [i \in 1..Len(cs) |->
        IF \E j \in 1..26 : LowerCase[j] = cs[i]
        THEN UpperCase[CHOOSE j \in 1..26 : LowerCase[j] = cs[i]]
        ELSE cs[i]]

\* build_params_from_ui, lines 556-666, on the contents of the form's
\* fields.  err is the message of the ValueError raised ("" when the form is
\* accepted); the other fields are the values returned.
build_params_from_ui(form) ==
    LET ano_str == Strip(form.var_ano)
        inicio_str == Strip(form.var_inicio)
        fim_str == Strip(form.var_fim)
        di == Strptime(inicio_str)
        df == Strptime(fim_str)
        period_err ==
            IF ano_str # <<>> /\ (inicio_str # <<>> \/ fim_str # <<>>)
            THEN "Use apenas o Ano OU as datas Inicio/Fim, nao ambos."
            ELSE IF ano_str # <<>>
            THEN IF ~(Len(ano_str) = 4 /\ isdigit(ano_str))
                 THEN "Ano invalido (use AAAA)."
                 ELSE IF ~(1900 <= NatOf(ano_str) /\ NatOf(ano_str) <= 2100)
                 THEN "Ano fora do intervalo permitido."
                 ELSE ""
            ELSE IF ~(inicio_str # <<>> /\ fim_str # <<>>)
            THEN "Informe o Ano OU as duas datas Inicio e Fim."
            ELSE IF di = NoDate THEN "Data de inicio invalida (use YYYY-MM-DD)."
            ELSE IF df = NoDate THEN "Data de fim invalida (use YYYY-MM-DD)."
            ELSE IF ~DateLeq(di, df) THEN "Data final nao pode ser anterior a inicial."
            ELSE ""
        mod_sel == form.var_modalidade
        dashes == Positions(mod_sel, "-")
        mod_head == IF dashes = {} THEN mod_sel
                    ELSE SubSeq(mod_sel, 1, (CHOOSE i \in dashes : \A j \in dashes : i <= j) - 1)
        mod_err ==
            IF mod_sel = <<>> THEN "Selecione uma modalidade."
            ELSE IF ~isdigit(Strip(mod_head)) THEN "Modalidade invalida."
            ELSE IF NatOf(Strip(mod_head)) \notin 1..13 THEN "Modalidade inexistente."
            ELSE ""
        abrang == Lower(Strip(form.var_abrangencia))
        known == {a \in ABRANGENCIAS : a.name = abrang}
        uf == Upper(Strip(form.var_uf))
        ibge == Strip(form.var_ibge)
        uf_bad == uf # <<>> /\ uf # <<"B", "R">> /\ (Len(uf) # 2 \/ ~isalpha(uf))
        scope_err ==
            IF known = {} THEN "Abrangencia invalida."
            ELSE IF abrang \in {<<"m", "u", "n", "i", "c", "i", "p", "a", "l">>, <<"e", "s", "t", "a", "d", "u", "a", "l">>} /\ uf_bad THEN "UF invalida."
            ELSE IF abrang = <<"m", "u", "n", "i", "c", "i", "p", "a", "l">> /\ ibge # <<>> /\ ~(isdigit(ibge) /\ Len(ibge) = 7)
            THEN "Codigo IBGE invalido (use 7 digitos)."
            ELSE ""
        start_page_str == IF Strip(form.var_start_page) # <<>>
                          THEN Strip(form.var_start_page) ELSE <<"1">>
        end_page_str == Strip(form.var_end_page)
        checkpoint_str == Strip(form.var_checkpoint)
        page_err ==
            IF ~isdigit(start_page_str) \/ NatOf(start_page_str) < 1
            THEN "Pagina inicial invalida (use inteiro >= 1)."
            ELSE IF end_page_str # <<>>
                    /\ (~isdigit(end_page_str) \/ NatOf(end_page_str) < 1)
            THEN "Pagina final invalida (use inteiro >= 1)."
            ELSE IF checkpoint_str # <<>>
                    /\ (~isdigit(checkpoint_str) \/ NatOf(checkpoint_str) < 1)
            THEN "Checkpoint invalido (use inteiro >= 1)."
            ELSE ""
        err == IF period_err # "" THEN period_err
               ELSE IF mod_err # "" THEN mod_err
               ELSE IF scope_err # "" THEN scope_err
               ELSE page_err
    IN  IF err # ""
        THEN [err |-> err, esfera_alvo |-> None, start_page |-> 0, end_page |-> None,
              checkpoint_pages |-> 0, only_us |-> FALSE, only_br |-> FALSE]
        ELSE [err |-> "",
              esfera_alvo |-> (CHOOSE a \in known : TRUE).esfera,
              start_page |-> NatOf(start_page_str),
              end_page |-> IF end_page_str # <<>> THEN Num(NatOf(end_page_str)) ELSE None,
              checkpoint_pages |-> IF checkpoint_str = <<>> THEN DEFAULT_CHECKPOINT_PAGES
                                   ELSE NatOf(checkpoint_str),
              only_us |-> form.var_only_us,
              only_br |-> form.var_only_br]

\* The form as the window shows it first (lines 448-530), with a year typed.
BaseForm ==
    [var_ano |-> <<"2", "0", "2", "4">>, var_inicio |-> <<>>, var_fim |-> <<>>,
     var_modalidade |-> <<"1", " ", "-", " ", "L", "e", "i", "l", "a", "o", " ", "-", " ", "E", "l", "e", "t", "r", "o", "n", "i", "c", "o">>,
     var_abrangencia |-> <<"m", "u", "n", "i", "c", "i", "p", "a", "l">>,
     var_uf |-> <<>>, var_ibge |-> <<>>,
     var_start_page |-> <<"1">>, var_end_page |-> <<>>,
     var_checkpoint |-> <<"5", "0">>,
     var_only_us |-> FALSE, var_only_br |-> FALSE]

\* What the user has typed when Start is clicked.
Forms ==
    {[BaseForm EXCEPT !.var_start_page = s, !.var_end_page = e, !.var_checkpoint = <<"1">>] :
        s \in {<<>>, <<"2">>, <<"0">>}, e \in {<<>>, <<"1">>, <<"x">>}}
    \cup {[BaseForm EXCEPT !.var_checkpoint = <<>>, !.var_uf = <<"s", "p">>, !.var_ibge = <<"3", "5", "5", "0", "3", "0", "8">>,
                           !.var_end_page = <<" ", "2", " ">>],
          [BaseForm EXCEPT !.var_checkpoint = <<"0">>],
          [BaseForm EXCEPT !.var_inicio = <<"2", "0", "2", "4", "-", "0", "1", "-", "0", "1">>],
          [BaseForm EXCEPT !.var_ano = <<"2", "4">>],
          [BaseForm EXCEPT !.var_ano = <<"2", "1", "0", "1">>],
          [BaseForm EXCEPT !.var_ano = <<>>],
          [BaseForm EXCEPT !.var_ano = <<>>, !.var_inicio = <<"2", "0", "2", "4", "-", "0", "1", "-", "0", "1">>,
                           !.var_fim = <<"2", "0", "2", "4", "-", "0", "2", "-", "3", "0">>],
          [BaseForm EXCEPT !.var_ano = <<>>, !.var_inicio = <<"0", "1", "/", "0", "1", "/", "2", "0", "2", "4">>,
                           !.var_fim = <<"2", "0", "2", "4", "-", "0", "2", "-", "0", "1">>],
          [BaseForm EXCEPT !.var_ano = <<>>, !.var_inicio = <<"2", "0", "2", "4", "-", "0", "3", "-", "0", "1">>,
                           !.var_fim = <<"2", "0", "2", "4", "-", "0", "2", "-", "0", "1">>],
          [BaseForm EXCEPT !.var_ano = <<>>, !.var_inicio = <<"2", "0", "2", "4", "-", "0", "1", "-", "0", "1">>,
                           !.var_fim = <<"2", "0", "2", "4", "-", "0", "1", "-", "3", "1">>, !.var_abrangencia = <<"E", "s", "t", "a", "d", "u", "a", "l">>,
                           !.var_uf = <<"B", "R">>, !.var_checkpoint = <<"2">>,
                           !.var_end_page = <<"2">>],
          [BaseForm EXCEPT !.var_uf = <<"S", "1">>],
          [BaseForm EXCEPT !.var_ibge = <<"3", "5", "5">>],
          [BaseForm EXCEPT !.var_abrangencia = <<"n", "a", "c", "i", "o", "n", "a", "l">>],
          [BaseForm EXCEPT !.var_modalidade = <<"1", "4", " ", "-", " ", "?">>],
          [BaseForm EXCEPT !.var_modalidade = <<>>]}

\* Thread.is_alive() of a worker: "job" while it is inside run_pncp_job (line
\* 689), "exiting" from self.after(0, finish) (line 722) until it has ended.
is_alive(th) == th \in {"job", "exiting"}

worker_busy_never(w) == FALSE

\* Line 671: self.worker_thread and self.worker_thread.is_alive()
worker_busy(w) == w # "None" /\ is_alive(w)

\* Lines 684-686 and 724-725, then lines 322-327 in the new thread: the job
\* is entered with the values of the form (its files go under the base name
\* of line 661, where nothing is yet).  A thread self.worker_thread referred
\* to, if alive, lives on.
JobEntered(cfg) ==
    /\ lbl_status' = "Executando..."
    /\ btn_run' = "disabled"
    /\ worker_thread' = "job"
    /\ live_threads' = live_threads + 1
    /\ pc' = "start"
    /\ start_page' = cfg.start_page
    /\ end_page' = cfg.end_page
    /\ checkpoint_pages' = cfg.checkpoint_pages
    /\ esfera_alvo' = cfg.esfera_alvo
    /\ only_us' = cfg.only_us
    /\ only_br' = cfg.only_br
    /\ chunk_first_page' = cfg.start_page
    /\ last_page_seen' = cfg.start_page - 1
    /\ disk' = {}
    /\ UNCHANGED <<wall_date, stream_vars, fetch_vars, total_registros, outputs_all,
                   buffer_raw, total_paginas_global, flushed, result, yielded, served,
                   fetched_pages, after_queue>>

\* on_run_clicked, lines 670-725.  Tk calls the command of a button only
\* while the button is enabled.
OnRunClicked ==
    /\ btn_run = "normal"
    /\ \E form \in Forms :
         IF worker_busy(worker_thread)
         THEN /\ dialog' = "Em execucao"
              /\ UNCHANGED <<pc, args, stream_vars, fetch_vars, job_vars, result, yielded,
                             served, fetched_pages, worker_thread, live_threads, btn_run,
                             lbl_status, after_queue>>
         ELSE LET cfg == build_params_from_ui(form)
              IN  IF cfg.err # ""
                  THEN /\ dialog' = "Erro de validacao"
                       /\ UNCHANGED <<pc, args, stream_vars, fetch_vars, job_vars, result,
                                      yielded, served, fetched_pages, worker_thread,
                                      live_threads, btn_run, lbl_status, after_queue>>
                  ELSE /\ dialog' = ""
                       /\ JobEntered(cfg)
    /\ UNCHANGED <<cl_vars, enc_vars, fl_vars>>

\* Lines 689-722: run_pncp_job has returned in the worker, which hands
\* finish, with the result, to the Tk event queue.  The locals of the job
\* are gone with its frame; the files stay.
WorkerAfter ==
    /\ pc = "done"
    /\ worker_thread = "job"
    /\ worker_thread' = "exiting"
    /\ after_queue' = Append(after_queue, result)
    /\ pc' = "off"
    /\ start_page' = 1
    /\ end_page' = None
    /\ checkpoint_pages' = 1
    /\ esfera_alvo' = None
    /\ only_us' = FALSE
    /\ only_br' = FALSE
    /\ page' = 0
    /\ total_paginas_hint' = None
    /\ today_brt' = NoDate
    /\ registros' = <<>>
    /\ filtrados' = <<>>
    /\ attempt' = 0
    /\ http_calls' = 0
    /\ warnings' = <<>>
    /\ total_registros' = 0
    /\ outputs_all' = <<>>
    /\ buffer_raw' = <<>>
    /\ chunk_first_page' = 1
    /\ last_page_seen' = 0
    /\ total_paginas_global' = None
    /\ result' = NoResult
    /\ yielded' = <<>>
    /\ flushed' = <<>>
    /\ served' = NoShape
    /\ fetched_pages' = <<>>
    /\ UNCHANGED <<wall_date, disk, cl_vars, enc_vars, fl_vars, live_threads, btn_run,
                   lbl_status, dialog>>

\* The function of a worker has returned and its thread ends: the thread
\* self.worker_thread refers to, or one it no longer refers to.
WorkerExit ==
    /\ \E referenced \in BOOLEAN :
         IF referenced
         THEN /\ worker_thread = "exiting"
              /\ worker_thread' = "dead"
         ELSE /\ live_threads > (IF is_alive(worker_thread) THEN 1 ELSE 0)
              /\ worker_thread' = worker_thread
    /\ live_threads' = live_threads - 1
    /\ UNCHANGED <<pc, args, stream_vars, fetch_vars, job_vars, result, yielded, served,
                   fetched_pages, cl_vars, enc_vars, fl_vars, btn_run, lbl_status,
                   after_queue, dialog>>

\* finish, lines 701-720, run by the Tk main loop.
Finish ==
    /\ after_queue # <<>>
    /\ btn_run' = "normal"
    /\ IF Head(after_queue).ok
       THEN /\ lbl_status' = "Concluido."
            /\ dialog' = "Concluido"
       ELSE /\ lbl_status' = "Erro na execucao."
            /\ dialog' = "Erro na execucao"
    /\ after_queue' = Tail(after_queue)
    /\ UNCHANGED <<pc, args, stream_vars, fetch_vars, job_vars, result, yielded, served,
                   fetched_pages, cl_vars, enc_vars, fl_vars, worker_thread, live_threads>>

InitGui ==
    /\ JobOff
    /\ ClassifierOff
    /\ EncoderOff
    /\ FlattenOff
    /\ GuiBuilt

NextGui ==
    \/ OnRunClicked
    \/ WorkerAfter
    \/ WorkerExit
    \/ Finish
    \/ Next

SpecGui == InitGui /\ [][NextGui]_vars

\* The Tk main loop runs the callbacks handed to it.
SpecGuiFair == InitGui /\ [][NextGui]_vars /\ WF_vars(Finish)

(* ------------------------------ properties ----------------------------- *)

RECURSIVE Concat(_)
\* The concatenation of a sequence of sequences.
Concat(ss) == IF ss = <<>> THEN <<>> ELSE Head(ss) \o Concat(Tail(ss))

\* The filtered records of the Page Results yielded, in stream order.
YieldedRecs == Concat([i \in 1..Len(yielded) |-> yielded[i].recs])

\* The records handed to save_chunk, in flush order.
FlushedRows == Concat([i \in 1..Len(flushed) |-> flushed[i].rows])

\* The paths save_chunk returned, in flush order.
FlushedOutputs == Concat([i \in 1..Len(flushed) |-> flushed[i].outputs])

\* The Page Result yielded last.
LastYield == yielded[Len(yielded)]

\* The errors a request can fail with.
TransportErrors == {"ConnectionError", "Timeout", "HTTPError"}

\* The Page Results yielded are those of pages start_page, start_page + 1, ...
YieldedInOrder == \A i \in 1..Len(yielded) : yielded[i].page = start_page + i - 1

Min(a, b) == IF a <= b THEN a ELSE b

\* C1: fetch_page sends at most 5 HTTP requests for one page.  While it is
\* still trying, every request sent so far has failed and fewer than 5 were
\* sent; a success on any of the attempts 1..5 returns that attempt's payload
\* (the page is processed after attempt - 1 < 5 failures); the error reaches
\* the caller exactly when 5 requests have failed, and no sixth is sent.
C1_AtMostFiveAttempts ==
    /\ http_calls <= 5
    /\ pc = "fetch" => attempt = http_calls /\ http_calls <= 4 /\ Len(warnings) = attempt
    /\ pc \in {"yielded", "resume", "exhausted"} =>
          /\ http_calls = attempt + 1
          /\ attempt <= 4
          /\ LastYield.page = page
    /\ (pc = "done" /\ result.error \in TransportErrors) <=> attempt = 5
    /\ attempt = 5 => http_calls = 5 /\ Len(warnings) = 4 /\ ~result.ok

\* C1 witness: four failed requests, then the fifth succeeds and its payload
\* becomes the page's Page Result.
C1_FourFailuresThenSuccess ==
    /\ pc = "yielded"
    /\ attempt = 4
    /\ http_calls = 5
    /\ LastYield.page = page
    /\ LastYield.fetched = PAGE_SIZE

\* C2: when the fetch of page p fails after its retries, pages
\* start_page..p-1 having been yielded, the job returns ok = false with an
\* error description, total_registros = the number of filtered records of the
\* pages yielded before p (p has no Page Result), and outputs = the paths
\* returned by the flushes completed before the failure, in flush order.
C2_FetchFailureReport ==
    (pc = "done" /\ result.error \in TransportErrors) =>
        /\ ~result.ok
        /\ result.error # ""
        /\ Len(yielded) = page - start_page
        /\ YieldedInOrder
        /\ result.total_registros = Len(YieldedRecs)
        /\ \A i \in 1..Len(flushed) : flushed[i].exc = "" /\ flushed[i].last < page
        /\ result.outputs = FlushedOutputs

\* C2 witness: the fetch of a later page fails for good after records were
\* counted and a chunk was written.
C2_FailureAfterProgress ==
    /\ pc = "done"
    /\ result.error \in TransportErrors
    /\ page > start_page
    /\ result.total_registros > 0
    /\ result.outputs # <<>>
    /\ Len(flushed) >= 1

\* C3: a successful run over pages start_page..L with cadence c in which
\* every page yields at least one filtered record flushes exactly
\* ceil((L - start_page + 1) / c) chunks, the i-th (from 0) covering pages
\* start_page + i*c .. min(start_page + (i+1)*c - 1, L).
C3_ChunkRanges ==
    (/\ pc = "done"
     /\ result.ok
     /\ \A i \in 1..Len(yielded) : Len(yielded[i].recs) >= 1) =>
        LET L == last_page_seen
            n == L - start_page + 1
            c == checkpoint_pages
        IN  /\ Len(yielded) = n
            /\ YieldedInOrder
            /\ Len(flushed) = (n + c - 1) \div c
            /\ \A i \in 0..(Len(flushed) - 1) :
                  /\ flushed[i + 1].first = start_page + i * c
                  /\ flushed[i + 1].last = Min(start_page + (i + 1) * c - 1, L)

\* C3 witness: cadence 2 over three pages starting past page 1, each with a
\* filtered record: a full chunk and a last chunk of one page.
C3_TwoChunksCadenceTwo ==
    /\ pc = "done"
    /\ result.ok
    /\ checkpoint_pages = 2
    /\ Len(yielded) = 3
    /\ \A i \in 1..Len(yielded) : Len(yielded[i].recs) >= 1
    /\ Len(flushed) = 2
    /\ flushed[2].first = flushed[2].last

\* C4: on a successful run every filtered record the stream yielded is handed
\* to save_chunk exactly once and in stream order (the rows of the flushes,
\* end to end, are the records yielded, end to end, and no record is yielded
\* twice: pages are distinct and a page's records keep their ascending
\* positions; this includes the final flush below the cadence), the buffer
\* is empty on return, and total_registros is the number of records handed to
\* save_chunk.
C4_EveryRecordFlushedOnce ==
    (pc = "done" /\ result.ok) =>
        /\ FlushedRows = YieldedRecs
        /\ YieldedInOrder
        /\ \A i \in 1..Len(yielded) : \A j \in 1..Len(yielded[i].recs) :
              /\ yielded[i].recs[j].pg = yielded[i].page
              /\ j > 1 => yielded[i].recs[j - 1].ix < yielded[i].recs[j].ix
        /\ \A i \in 1..Len(flushed) : flushed[i].exc = ""
        /\ buffer_raw = <<>>
        /\ result.total_registros = Len(FlushedRows)

\* C4 witness: a successful run whose last chunk holds records of fewer pages
\* than the cadence, after a chunk of two pages with records of both.
C4_FinalFlushBelowCadence ==
    /\ pc = "done"
    /\ result.ok
    /\ checkpoint_pages = 2
    /\ Len(flushed) = 2
    /\ Len(yielded) = 3
    /\ \A i \in 1..Len(yielded) : Len(yielded[i].recs) >= 1
    /\ flushed[2].last - flushed[2].first + 1 < checkpoint_pages
    /\ flushed[2].rows # <<>>
    /\ result.total_registros = Len(flushed[1].rows) + Len(flushed[2].rows)

\* The stop condition of the stream after the Page Result y, as stated: the
\* end page is reached, or the hint captured is reached, or fewer than
\* PAGE_SIZE records were fetched.
StopsAfter(y) ==
    \/ end_page.t = "num" /\ y.page >= end_page.n
    \/ y.hint.t = "num" /\ y.page >= y.hint.n
    \/ y.fetched < 50

\* C5: after the Page Result of page p the stream stops if and only if the end
\* page is given and p >= end_page, or a hint was captured and p >= hint, or
\* fewer than 50 records were fetched; otherwise the next page fetched is
\* p + 1.
C5_StopOrNextPage ==
    /\ pc = "exhausted" => StopsAfter(LastYield) /\ page = LastYield.page
    /\ (pc = "fetch" /\ yielded # <<>>) =>
          ~StopsAfter(LastYield) /\ page = LastYield.page + 1
    /\ (pc = "fetch" /\ yielded = <<>>) => page = start_page

\* C5 witness: no end page, no hint; a 50-record page was followed by the
\* fetch of the next page, whose 49 records make it the last.
C5_FullPageThenShortPage ==
    /\ pc = "exhausted"
    /\ end_page = None
    /\ total_paginas_hint = None
    /\ Len(yielded) = 2
    /\ yielded[1].fetched = 50
    /\ yielded[2].fetched = 49
    /\ yielded[2].page = yielded[1].page + 1

\* The payload answered last is a JSON object whose record collection is an
\* empty list.
ServedEmptyList == served.t = "dict" /\ served.coll = "list" /\ served.n = 0

\* C6 (as claimed): a page whose payload is an object with an empty list as
\* its record collection gives a Page Result with zero records for that page,
\* the stream then ends normally, and the job returns ok = true (unless a
\* write fails): the empty page never makes the job fail.
C6_EmptyPageEndsNormally ==
    ServedEmptyList =>
        /\ pc # "fetch"
        /\ yielded # <<>>
        /\ LastYield.page = page
        /\ LastYield.recs = <<>>
        /\ LastYield.fetched = 0
        /\ (pc = "done" /\ \A i \in 1..Len(flushed) : flushed[i].exc = "") => result.ok

\* A monotone day count for <<year, month, day>>.
DayNumber(d) == 372 * d[1] + 31 * d[2] + d[3]

\* The three criteria as stated, on what the input's fields name.
DateCriterion(in, ref) == in.date.date # NoDate /\ DayNumber(in.date.date) <= DayNumber(ref)

ValueCriterion(in) == in.value.number /\ in.value.milli > 0

StatusCriterion(in) == in.status.norm \in {"revogada", "anulada", "suspensa"}

\* Every field of the input holds a value of the documented type.
WellTyped(in) == in.date.typed /\ in.value.typed /\ in.status.typed

\* C7 (as claimed): for every record and reference date is_encerrada returns
\* true if and only if the closing date is on or before the reference date, or
\* the homologated value is a number greater than zero, or the status, trimmed
\* and lower-cased, is revogada, anulada or suspensa.
C7_ClosedIffAnyCriterion ==
    cl_pc \in {"returned", "raised"} =>
        ((cl_pc = "returned" /\ cl_out.val) <=>
            (DateCriterion(cl_in, cl_today) \/ ValueCriterion(cl_in) \/ StatusCriterion(cl_in)))

\* The equivalence of C7 on the records whose three fields hold values of the
\* documented types (text or null for the date and the status, a number or
\* null for the value), where it does hold.
ClosedIffAnyCriterionWellTyped ==
    (cl_pc \in {"returned", "raised"} /\ WellTyped(cl_in)) =>
        /\ cl_pc = "returned"
        /\ cl_out.val <=>
              (DateCriterion(cl_in, cl_today) \/ ValueCriterion(cl_in) \/ StatusCriterion(cl_in))

\* C8 (as claimed): is_encerrada never raises, whatever the types of the three
\* fields, and a field of an unexpected type counts as not closed for its
\* criterion.
C8_NeverRaises ==
    /\ cl_pc # "raised"
    /\ (/\ cl_pc = "returned"
        /\ ~DateCriterion(cl_in, cl_today)
        /\ ~StatusCriterion(cl_in)
        /\ ~cl_in.value.typed) => ~cl_out.val

\* What the notices served are, by body: the scope code under
\* orgaoEntidade.esferaId ("" when absent or null), and whether the notice is
\* closed on the run's date.
PoolScope == <<"M", "M", "E", "", "E", "", "", "">>

PoolClosed == <<TRUE, FALSE, TRUE, TRUE, FALSE, TRUE, TRUE, FALSE>>

TargetScope == IF esfera_alvo = ESFERA_M THEN "M" ELSE IF esfera_alvo = ESFERA_E THEN "E" ELSE ""

Kept(r) == \E i \in 1..Len(filtrados) : filtrados[i] = r

\* C9 (as claimed): with a target scope, a record is kept only if its scope is
\* present and equal to the target and it is closed; a record whose scope is
\* absent or different is skipped.
C9_KeptOnlyIfScopeEqual ==
    (pc = "yielded" /\ TargetScope # "") =>
        \A i \in 1..Len(registros) :
            Kept(registros[i]) <=>
                (PoolScope[registros[i].k] = TargetScope /\ PoolClosed[registros[i].k])

\* C9 (amended): with a target scope, the records kept are, in page order, the
\* closed records whose scope is absent or equal to the target; only a record
\* whose scope is present and different is skipped by the scope filter.
C9_KeptUnlessScopeDiffers ==
    (pc = "yielded" /\ TargetScope # "") =>
        filtrados = SelectSeq(registros,
                        LAMBDA r : /\ PoolScope[r.k] \in {"", TargetScope}
                                   /\ PoolClosed[r.k])

\* C9 witness: with target M, a page yields a closed record without scope and
\* a municipal one, and drops a closed state-level record.
C9_AbsentScopeKept ==
    /\ pc = "yielded"
    /\ TargetScope = "M"
    /\ \E i \in 1..Len(filtrados) : PoolScope[filtrados[i].k] = ""
    /\ \E i \in 1..Len(filtrados) : PoolScope[filtrados[i].k] = "M"
    /\ \E i \in 1..Len(registros) :
          /\ PoolScope[registros[i].k] = "E"
          /\ PoolClosed[registros[i].k]
          /\ ~Kept(registros[i])

\* The paths a flush of pages first..last returns, as stated: the standard
\* file unless regional-only is selected, the regional file unless
\* standard-only is selected.
StatedPaths(first, last) ==
    (IF ~only_br THEN <<Path(first, last, ".csv", TRUE)>> ELSE <<>>)
    \o (IF ~only_us THEN <<Path(first, last, "_BR.csv", TRUE)>> ELSE <<>>)

\* C10 (as claimed): whatever the flags, each flush of a non-empty buffer
\* writes one or two files and returns their paths, named after the chunk's
\* page range.
C10_OneOrTwoFilesPerFlush ==
    \A i \in 1..Len(flushed) :
        (flushed[i].rows # <<>> /\ flushed[i].exc = "") =>
            /\ Len(flushed[i].outputs) \in {1, 2}
            /\ flushed[i].outputs = StatedPaths(flushed[i].first, flushed[i].last)
            /\ \A j \in 1..Len(flushed[i].outputs) :
                  \E f \in disk : f.path = flushed[i].outputs[j]

\* C11 (as claimed): when the job has returned, on success or on failure,
\* every file the job wrote to disk has its path in the outputs of the Job
\* Result, also when the second variant of a chunk failed after the first was
\* written.
C11_EveryFileReported ==
    pc = "done" =>
        \A f \in disk : \E i \in 1..Len(result.outputs) : result.outputs[i] = f.path

\* C12 (as claimed): no partial chunk file is ever on disk: every file holds
\* its header and all the rows of its chunk, whatever way a flush ended.
C12_NoPartialFile ==
    \A f \in disk : f.header /\ f.nrows = f.want

\* The payload answered last is a JSON object whose record collection is no
\* list: a scalar (number or text), an object, or no records key at all.
ServedNoList == served.t = "dict" /\ served.coll \in {"num", "str", "dict", "missing"}

\* C13 (as claimed): a page whose record collection cannot be read as a list
\* of records is treated as an empty collection: a Page Result with zero
\* records is emitted for it and the job does not fail because of it.
C13_NoListIsEmptyPage ==
    ServedNoList =>
        /\ yielded # <<>>
        /\ LastYield.page = page
        /\ LastYield.recs = <<>>
        /\ LastYield.fetched = 0
        /\ result.error # "AttributeError"

\* C14 (as claimed): a payload that is itself a list of records is used as
\* the page's records, filtered and emitted, without raising.
C14_BareListAccepted ==
    served.t = "list" =>
        /\ yielded # <<>>
        /\ LastYield.page = page
        /\ LastYield.fetched = served.n
        /\ result.error # "AttributeError"

\* The pages fetched with success are start_page, start_page + 1, ... with
\* none skipped or repeated.
PagesFetchedInOrder ==
    \A i \in 1..Len(fetched_pages) : fetched_pages[i] = start_page + i - 1

\* C15 (as claimed): pages are fetched in increasing order from start_page,
\* none skipped or repeated, and each page fetched with success has exactly
\* one Page Result, emitted in page order before its stop condition is
\* evaluated (the stream is never exhausted with the last page not emitted).
C15_OnePageResultPerFetchedPage ==
    /\ PagesFetchedInOrder
    /\ Len(yielded) = Len(fetched_pages)
    /\ \A i \in 1..Len(yielded) : yielded[i].page = fetched_pages[i]
    /\ pc \in {"resume", "exhausted"} => LastYield.page = page

\* The part of C15 that holds: fetches are in page order, the Page Results
\* emitted are those of a prefix of the pages fetched, at most the page
\* fetched last has none (its processing raised), and the stream evaluates a
\* page's stop condition only after emitting that page.
PageResultsFollowFetches ==
    /\ PagesFetchedInOrder
    /\ Len(fetched_pages) - 1 <= Len(yielded) /\ Len(yielded) <= Len(fetched_pages)
    /\ \A i \in 1..Len(yielded) : yielded[i].page = fetched_pages[i]
    /\ Len(yielded) < Len(fetched_pages) => pc = "done" /\ result.error = "AttributeError"
    /\ pc \in {"resume", "exhausted"} => LastYield.page = page

\* C17: the wait before the k-th retry of a page (after its k-th failed
\* request, k = 1..4) is 2 * k = 2, 4, 6, 8; a warning naming the page and
\* that wait is printed before each wait; the fifth failure is followed by no
\* warning and no wait (4 warnings at most, one per failure but the fifth).
C17_LinearBackoff ==
    /\ \A k \in 1..Len(warnings) :
          /\ warnings[k].wait = 2 * k
          /\ warnings[k].page = page
    /\ Len(warnings) = Min(attempt, 4)

\* C17 witness: five requests of one page failed: four warnings with the waits
\* 2, 4, 6, 8 and none after the fifth failure, which ended the job.
C17_FourWaitsThenRaise ==
    /\ pc = "done"
    /\ attempt = 5
    /\ Len(warnings) = 4
    /\ warnings[1].wait = 2
    /\ warnings[4].wait = 8
    /\ result.error \in TransportErrors

\* C18: the total-pages hint is the totalPaginas of the first page's payload
\* (None when it has none): the first Page Result carries it, every later
\* Page Result carries the same value, the stream's hint and the job's total
\* are that value, and a totalPaginas on a later page, different or newly
\* present, changes neither the hint nor the stop decision (the stream goes
\* on past a page that a later value would have made the last).
C18_HintFromFirstPageOnly ==
    yielded # <<>> =>
        LET first == yielded[1].hint
        IN  /\ (Len(yielded) = 1 /\ pc = "yielded") => first = Get(served.total)
            /\ \A i \in 1..Len(yielded) : yielded[i].hint = first
            /\ total_paginas_hint = first
            /\ total_paginas_global \in {None, first}
            /\ pc \in {"resume", "exhausted"} => total_paginas_global = first
            /\ pc = "fetch" => ~(first.t = "num" /\ LastYield.page >= first.n)
            /\ (pc = "exhausted" /\ end_page = None /\ LastYield.fetched = PAGE_SIZE) =>
                  (first.t = "num" /\ LastYield.page >= first.n)

\* C18 witness: the first page had no totalPaginas, the second says 1 (which,
\* if captured, would end the stream there); the hint stays None and the
\* third page is fetched.
C18_LaterHintIgnored ==
    /\ pc = "fetch"
    /\ Len(yielded) = 2
    /\ served.total = Num(1)
    /\ yielded[1].hint = None
    /\ yielded[2].hint = None
    /\ total_paginas_hint = None
    /\ page = yielded[2].page + 1

\* The page processed last ended with a flush.
JustFlushed == flushed # <<>> /\ flushed[Len(flushed)].last = last_page_seen

\* The filtered records of the pages yielded from page p on, in stream order.
YieldedRecsFrom(p) ==
    Concat([i \in 1..Len(SelectSeq(yielded, LAMBDA y : y.page >= p)) |->
               SelectSeq(yielded, LAMBDA y : y.page >= p)[i].recs])

PoolClosedNextDay == <<TRUE, TRUE, TRUE, TRUE, FALSE, TRUE, TRUE, FALSE>>

\* C20: the reference date is read once, when the stream starts, and every
\* record of every page is classified against it, also after the local date
\* has changed: the stream's today_brt stays the start date, every record
\* kept is closed on the start date, and with no target scope the records
\* kept are exactly the page's records closed on the start date.
C20_ReferenceDateReadOnce ==
    /\ pc \in {"fetch", "yielded", "resume", "exhausted", "done"} =>
          today_brt = WallDateSeq[1]
    /\ pc = "yielded" =>
          /\ \A i \in 1..Len(filtrados) : PoolClosed[filtrados[i].k]
          /\ TargetScope = "" =>
                filtrados = SelectSeq(registros, LAMBDA r : PoolClosed[r.k])

\* C20 witness: the local date changed during the run; a later page holds a
\* notice that closes on the new date, and it is not kept, while notices
\* closed on the start date are.
C20_DateChangedDuringRun ==
    /\ pc = "yielded"
    /\ Len(yielded) >= 2
    /\ wall_date = WallDateSeq[2]
    /\ today_brt = WallDateSeq[1]
    /\ \E i \in 1..Len(registros) :
          /\ ~PoolClosed[registros[i].k]
          /\ PoolClosedNextDay[registros[i].k]
    /\ \A i \in 1..Len(filtrados) : PoolClosed[filtrados[i].k]
    /\ filtrados # <<>>

Max(a, b) == IF a >= b THEN a ELSE b

\* An end page is given, or the first page carried a total-pages hint.
RunIsBounded ==
    end_page # None \/ (yielded # <<>> /\ yielded[1].hint.t = "num")

\* The smaller of the end page given and the hint captured.
PageBound ==
    IF end_page # None /\ yielded # <<>> /\ yielded[1].hint.t = "num"
    THEN Min(end_page.n, yielded[1].hint.n)
    ELSE IF end_page # None THEN end_page.n
    ELSE yielded[1].hint.n

\* Each fetch sends at most 5 requests, and a bounded run emits at most
\* max(1, bound - start_page + 1) pages.
AttemptsAndPagesBounded ==
    /\ http_calls <= 5
    /\ (RunIsBounded /\ yielded # <<>>) =>
          Len(yielded) <= Max(1, PageBound - start_page + 1)

\* C16: when an end page is given or the first page carries a total-pages
\* hint, the job eventually returns a Job Result (completion or fatal error):
\* each page fetch ends after at most 5 requests and the stream emits at most
\* max(1, bound - start_page + 1) pages, bound being the smaller of the end
\* page and the hint.
C16_BoundedRunReturns ==
    /\ []AttemptsAndPagesBounded
    /\ (RunIsBounded ~> (pc = "done"))

\* C16 witness: with end page 2 a run from page 1 returned after two pages,
\* the second of which was full (only the end page stopped the stream).
C16_StoppedByEndPage ==
    /\ pc = "done"
    /\ result.ok
    /\ start_page = 1
    /\ end_page = Num(2)
    /\ total_paginas_hint = None
    /\ Len(yielded) = 2
    /\ LastYield.fetched = PAGE_SIZE

(* ------------------------------ C21 ------------------------------------ *)

\* The key, as written, contains one of the numeric hints.
KeyHasHint(key) == \E h \in NUMERIC_KEYS_HINTS : Contains(key, h)

\* The text parses as a decimal number once a comma is made a dot.
ParsesAsDecimal(cs) == PyFloat(Str(Replace(cs, ",", <<".">>))).ok

\* What csv writes as an empty cell: None or the empty string.
IsEmptyCell(c) == c.t = "none" \/ c = Str(<<>>)

\* C21: in the standard encoder, a non-null value under a key that contains
\* a numeric hint, whose text does not parse as a decimal number, is emitted
\* as an empty cell and not as the original text.
C21_UnparseableEmittedEmpty ==
    (/\ enc_pc = "written"
     /\ enc_value.t = "str"
     /\ KeyHasHint(enc_key)
     /\ ~ParsesAsDecimal(enc_value.s))
    => IsEmptyCell(enc_cell)

(* ------------------------------ C22 ------------------------------------ *)

RECURSIVE ScalarLeaves(_)
\* The number of scalar leaves of a JSON value.
ScalarLeaves(v) ==
    IF v.t = "leaf" THEN 1
    ELSE LET RECURSIVE sum(_)
             sum(i) == IF i > Len(v.kids) THEN 0
                       ELSE ScalarLeaves(v.kids[i].v) + sum(i + 1)
         IN  sum(1)

\* C22: flatten_dict never maps two scalar leaves of a record to the same
\* key: the flattened mapping has as many entries as the record has scalar
\* leaves, whatever the keys (a key may contain "." or "[0]").
C22_OneEntryPerLeaf ==
    fl_pc = "returned" => Cardinality(DOMAIN fl_items) = ScalarLeaves(fl_d)

(* ------------------------------ C23 ------------------------------------ *)

\* C23: for every start page >= 1 and end page >= 1 that the form accepts, a
\* job with an end page never fetches a page whose number is greater than
\* the end page.
C23_NoFetchBeyondEndPage ==
    (worker_thread = "job" /\ end_page.t = "num")
    => \A i \in 1..Len(fetched_pages) : fetched_pages[i] <= end_page.n

(* ------------------------------ C24 ------------------------------------ *)

\* Everything of the window and of the job but the message box shown.
StateButDialog ==
    <<pc, args, stream_vars, fetch_vars, job_vars, result, yielded, served, fetched_pages,
      worker_thread, live_threads, btn_run, lbl_status, after_queue>>

\* C24: under any interleaving of Start clicks and worker progress at most
\* one worker thread is alive at any time; a click while a worker is alive
\* starts no job and changes no state; the Start button is disabled from the
\* start of a job, and it is enabled again after the job has returned, with
\* success or with failure.
C24_SingleWorker ==
    /\ [](live_threads <= 1)
    /\ []((worker_thread = "job" \/ after_queue # <<>>) => btn_run = "disabled")
    /\ [][is_alive(worker_thread) => live_threads' <= live_threads]_vars
    /\ [][(dialog' = "Em execucao" /\ dialog # "Em execucao")
            => (is_alive(worker_thread) /\ UNCHANGED StateButDialog)]_vars
    /\ [][(after_queue # <<>> /\ after_queue' = Tail(after_queue))
            => btn_run' = "normal"]_vars
    /\ ((after_queue # <<>>) ~> (btn_run = "normal"))

\* C24 witness: a job has failed, finish has enabled the button again while
\* the worker thread was still ending, and a click in that interval was
\* turned down.
C24_ClickWhileWorkerEnding ==
    /\ dialog = "Em execucao"
    /\ worker_thread = "exiting"
    /\ live_threads = 1
    /\ btn_run = "normal"
    /\ lbl_status = "Erro na execucao."

(* ------------------------------ C25 ------------------------------------ *)

\* The files on disk named after the chunk of pages first..last.
FilesOfChunk(first, last) == {f \in disk : f.path.first = first /\ f.path.last = last}

\* A flush of an empty buffer writes no file and returns no path; right
\* after a checkpoint flush, empty or not, chunk_first_page has advanced;
\* every path in outputs is a file with at least one data row; a job that
\* returns ok with zero records returns no path and has written no file.
EmptyChunkWritesNothing ==
    /\ \A i \in 1..Len(flushed) :
          flushed[i].rows = <<>> =>
              /\ flushed[i].outputs = <<>>
              /\ flushed[i].exc = ""
              /\ FilesOfChunk(flushed[i].first, flushed[i].last) = {}
    /\ (pc = "resume" /\ JustFlushed) =>
          /\ chunk_first_page = last_page_seen + 1
          /\ buffer_raw = <<>>
    /\ \A j \in 1..Len(outputs_all) :
          \E f \in disk : f.path = outputs_all[j] /\ f.nrows >= 1
    /\ (pc = "done" /\ result.ok /\ total_registros = 0) =>
          result.outputs = <<>> /\ disk = {}

\* C25 (as claimed): no file is written and no path returned for an empty
\* chunk, at a checkpoint (where chunk_first_page still advances) or at the
\* end of the stream; every file in outputs has at least one data row; and a
\* run with zero filtered records, when no request has failed for good,
\* returns ok = true with an empty outputs list.
C25_NoFileForEmptyChunk ==
    /\ EmptyChunkWritesNothing
    /\ (pc = "done" /\ total_registros = 0 /\ result.error \notin TransportErrors) =>
          result.ok /\ result.outputs = <<>>

====
